---- MODULE Spec2Model ----
(***************************************************************************)
(* Model of the network dispatcher of core/src/dispatch/mod.rs:            *)
(* NetworkDispatcher (connection table, bridge, queue manager) and         *)
(* QueueManager (per-peer frame queues).                                   *)
(*                                                                         *)
(* Three specifications share the variables:                              *)
(*   Spec      the dispatcher from construction (with_config), driven by   *)
(*             the envelopes and control events it can receive;           *)
(*   SpecConn  the same handlers started from a dispatcher whose           *)
(*             connection table holds any ConnectionState per peer.  The   *)
(*             handlers of this file never store Connected or Blocked, so  *)
(*             the Connected and catch-all branches of route_remote are    *)
(*             exercised only from such a table;                           *)
(*   SpecQM    a QueueManager on its own, driven by enqueue_frame and      *)
(*             dequeue_frame.                                              *)
(***************************************************************************)
EXTENDS Integers, Sequences, FiniteSets

\* ---- bounds ------------------------------------------------------------
MaxRoutes == 3
MaxFrames == 4

\* ---- domains -----------------------------------------------------------
Peers == {"A", "B"}
Paths == {"/foo/bar"}
NoPeer == "-"
NoPath == "-"
Transports == {"LOCAL", "TCP", "UDP"}
ConnectionStates == {"New", "Initializing", "Connected", "Closed", "Blocked"}
NoEntry == "NoEntry"
TrySendResults == {"Ok", "Full", "Disconnected"}
NotTried == "NotTried"
NetworkEvents == {"Opened", "Closed", "Received", "ConnectFailed"}
ConnectFailReasons == {"Permanent", "Transient"}

\* The frame route_remote builds: the payload is the same literal for every
\* message; id is the ordinal of the route call that built it (the identity
\* of the frame object).
Frame(id) == [id |-> id, payload |-> "TODObytes"]

VARIABLES
    connections,    \* HashMap<SocketAddr, ConnectionState>; NoEntry = no key
    net_bridge,     \* Option<net::Bridge>: TRUE = Some
    queue_manager,  \* Option<QueueManager>: [some, inner]
    lookup,         \* ActorLookup: the registered paths
    connect_calls,  \* Bridge side: number of connect(TCP, addr) calls per peer
    sent,           \* Bridge side: frames accepted by each peer's send channel
    routed,         \* history: ids of the frames route_remote built per peer
    next_id,        \* history: ordinal of the next route call
    lastOp          \* history: the last handler that ran

vars == <<connections, net_bridge, queue_manager, lookup, connect_calls,
          sent, routed, next_id, lastOp>>

EmptyInner == [p \in Peers |-> <<>>]
NoQueueManager == [some |-> FALSE, inner |-> EmptyInner]

Op(op, peer, prev, res, id) ==
    [op |-> op, peer |-> peer, prev |-> prev, res |-> res, id |-> id,
     path |-> NoPath]

\* the record of a handler whose envelope names an actor path
OpPath(op, path, id) ==
    [Op(op, NoPeer, NoEntry, NotTried, id) EXCEPT !.path = path]

\* Every frame the dispatcher reported to the deadletter collaborator or as a
\* QueueOverflow event: no handler of this file emits either (the failure
\* branches only log), so the record is empty in every state.
DeadLetters == {}

\* Every envelope the dispatcher enqueued on the mailbox of the actor
\* registered at a path (the id of the message it carries): route_local has
\* no body and the Event arm only logs, so every mailbox stays empty.
Mailbox == [path \in Paths |-> <<>>]

\* ActorLookup::insert, as the registry's insert is specified: the path is
\* bound afterwards.
lookup_insert(registry, path) == registry \cup {path}

\* ---- QueueManager ------------------------------------------------------
QueueManagerNew == [some |-> TRUE, inner |-> EmptyInner]

\* push_front in place of push_back
enqueue_frame_push_front(inner, frame, dst) ==
    [inner EXCEPT ![dst] = <<frame>> \o @]

\* one queue shared by all peers in place of entry(dst)
enqueue_frame_shared(inner, frame, dst) ==
    [p \in Peers |-> Append(inner[p], frame)]

enqueue_frame(inner, frame, dst) ==
    [inner EXCEPT ![dst] = Append(@, frame)]

\* dequeue_frame: the returned Option<Frame> (a sequence of length 0 or 1)
\* and the queues afterwards.  VecDeque::pop_back removes the last element.
dequeue_frame(inner, dst) ==
    LET q == inner[dst] IN
    IF Len(q) = 0
    THEN [ret |-> <<>>, inner |-> inner]
    ELSE [ret |-> <<q[Len(q)]>>,
          inner |-> [inner EXCEPT ![dst] = SubSeq(q, 1, Len(q) - 1)]]

\* the recovered frame is dropped when the peer already has queued frames
map_enqueue_frame_drop(qm, frame, dst) ==
    IF qm.some /\ Len(qm.inner[dst]) = 0
    THEN [qm EXCEPT !.inner = enqueue_frame(qm.inner, frame, dst)]
    ELSE qm

\* get_or_insert_with in place of as_mut().map: a missing queue manager is
\* created by the first enqueue
map_enqueue_frame_lazy(qm, frame, dst) ==
    [some |-> TRUE, inner |-> enqueue_frame(qm.inner, frame, dst)]

\* self.queue_manager.as_mut().map(|q| q.enqueue_frame(frame, addr))
map_enqueue_frame(qm, frame, dst) ==
    IF qm.some
    THEN [qm EXCEPT !.inner = enqueue_frame(qm.inner, frame, dst)]
    ELSE qm

\* ---- NetworkDispatcher -------------------------------------------------
Init ==
    /\ connections = [p \in Peers |-> NoEntry]
    /\ net_bridge = FALSE
    /\ queue_manager = NoQueueManager
    /\ lookup = {}
    /\ connect_calls = [p \in Peers |-> 0]
    /\ sent = [p \in Peers |-> <<>>]
    /\ routed = [p \in Peers |-> <<>>]
    /\ next_id = 1
    /\ lastOp = Op("new", NoPeer, NoEntry, NotTried, 0)

\* A started dispatcher with any connection table.
InitConn ==
    /\ connections \in [Peers -> ConnectionStates \cup {NoEntry}]
    /\ net_bridge = TRUE
    /\ queue_manager = QueueManagerNew
    /\ lookup = {}
    /\ connect_calls = [p \in Peers |-> 0]
    /\ sent = [p \in Peers |-> <<>>]
    /\ routed = [p \in Peers |-> <<>>]
    /\ next_id = 1
    /\ lastOp = Op("new", NoPeer, NoEntry, NotTried, 0)

\* start() without its last assignment: the queue manager is not stored
Start_bridge_only ==
    /\ net_bridge' = TRUE
    /\ lastOp' = Op("Start", NoPeer, NoEntry, NotTried, 0)
    /\ UNCHANGED <<connections, queue_manager, lookup, connect_calls, sent,
                   routed, next_id>>

\* ControlEvent::Start => self.start()
Start ==
    /\ net_bridge' = TRUE
    /\ queue_manager' = QueueManagerNew
    /\ lastOp' = Op("Start", NoPeer, NoEntry, NotTried, 0)
    /\ UNCHANGED <<connections, lookup, connect_calls, sent, routed, next_id>>

\* ControlEvent::Stop => info!(.., "Stopping")
Stop ==
    /\ lastOp' = Op("Stop", NoPeer, NoEntry, NotTried, 0)
    /\ UNCHANGED <<connections, net_bridge, queue_manager, lookup,
                   connect_calls, sent, routed, next_id>>

\* ControlEvent::Kill => info!(.., "Killed")
Kill ==
    /\ lastOp' = Op("Kill", NoPeer, NoEntry, NotTried, 0)
    /\ UNCHANGED <<connections, net_bridge, queue_manager, lookup,
                   connect_calls, sent, routed, next_id>>

\* The state route_remote matches on: entry(addr).or_insert(New)
entry_or_insert(conns, addr) ==
    IF conns[addr] = NoEntry THEN "New" ELSE conns[addr]

\* route_remote, for the peer addr of dst; res is what tx.try_send returns
\* when the peer is Connected.
route_remote(addr, res) ==
    LET frame == Frame(next_id)
        state == entry_or_insert(connections, addr)
        queued == map_enqueue_frame(queue_manager, frame, addr)
    IN
    /\ (state = "Connected") => res \in TrySendResults
    /\ (state # "Connected") => res = NotTried
    /\ routed' = [routed EXCEPT ![addr] = Append(@, next_id)]
    /\ lastOp' = Op("route_remote", addr, connections[addr], res, next_id)
    /\ CASE state \in {"New", "Closed"} ->
              /\ queue_manager' = queued
              /\ IF net_bridge
                 THEN /\ connect_calls' = [connect_calls EXCEPT ![addr] = @ + 1]
                      /\ connections' = [connections EXCEPT ![addr] = "Initializing"]
                 ELSE /\ connect_calls' = connect_calls
                      /\ connections' = [connections EXCEPT ![addr] = "Closed"]
              /\ sent' = sent
         [] state = "Connected" /\ res = "Ok" ->
              /\ sent' = [sent EXCEPT ![addr] = Append(@, frame)]
              /\ UNCHANGED <<connections, queue_manager, connect_calls>>
         [] state = "Connected" /\ res = "Full" ->
              /\ queue_manager' = queued
              /\ UNCHANGED <<connections, connect_calls, sent>>
         [] state = "Connected" /\ res = "Disconnected" ->
              /\ queue_manager' = queued
              /\ connections' = [connections EXCEPT ![addr] = "Closed"]
              /\ UNCHANGED <<connect_calls, sent>>
         [] state = "Initializing" ->
              /\ queue_manager' = queued
              /\ connections' = [connections EXCEPT ![addr] = state]
              /\ UNCHANGED <<connect_calls, sent>>
         [] OTHER ->
              /\ connections' = [connections EXCEPT ![addr] = state]
              /\ UNCHANGED <<queue_manager, connect_calls, sent>>

\* route_local: the body is commented out
route_local(path) ==
    /\ lastOp' = OpPath("route_local", path, next_id)
    /\ UNCHANGED <<connections, queue_manager, connect_calls, sent, routed>>

\* Transport::UDP => error!(.., "UDP routing not supported yet")
route_udp ==
    /\ lastOp' = Op("route_udp", NoPeer, NoEntry, NotTried, next_id)
    /\ UNCHANGED <<connections, queue_manager, connect_calls, sent, routed>>

\* route: dispatch on the protocol of dst's system
route(proto, addr, path, res) ==
    CASE proto = "LOCAL" -> res = NotTried /\ route_local(path)
      [] proto = "TCP" -> route_remote(addr, res)
      [] proto = "UDP" -> res = NotTried /\ route_udp

\* DispatchEnvelope::Msg { src, dst, msg } => self.route(src, dst, msg)
ReceiveMsg ==
    /\ next_id <= MaxRoutes
    /\ \E proto \in Transports, addr \in Peers, path \in Paths,
          res \in TrySendResults \cup {NotTried} :
          /\ proto # "TCP" => addr = CHOOSE a \in Peers : TRUE
          /\ proto # "LOCAL" => path = CHOOSE a \in Paths : TRUE
          /\ route(proto, addr, path, res)
    /\ next_id' = next_id + 1
    /\ UNCHANGED <<net_bridge, lookup>>

\* the Cast arm falls into the registration arm and binds the path
ReceiveCast_registers ==
    \E path \in Paths :
        /\ lookup' = lookup_insert(lookup, path)
        /\ lastOp' = Op("Cast", NoPeer, NoEntry, NotTried, 0)
        /\ UNCHANGED <<connections, net_bridge, queue_manager,
                       connect_calls, sent, routed, next_id>>

\* DispatchEnvelope::Cast(_) => error!(.., "Received a cast envelope")
ReceiveCast ==
    /\ lastOp' = Op("Cast", NoPeer, NoEntry, NotTried, 0)
    /\ UNCHANGED <<connections, net_bridge, queue_manager, lookup,
                   connect_calls, sent, routed, next_id>>

\* RegistrationEnvelope::Register(actor, path) => self.lookup.insert(actor, path)
ReceiveRegister ==
    \E path \in Paths :
        /\ lookup' = lookup_insert(lookup, path)
        /\ lastOp' = OpPath("Register", path, 0)
        /\ UNCHANGED <<connections, net_bridge, queue_manager,
                       connect_calls, sent, routed, next_id>>

\* RegistrationEnvelope::Deregister(actor_path) => debug!(..) // TODO handle
ReceiveDeregister ==
    \E path \in Paths :
        /\ lastOp' = OpPath("Deregister", path, 0)
        /\ UNCHANGED <<connections, net_bridge, queue_manager, lookup,
                       connect_calls, sent, routed, next_id>>

\* DispatchEnvelope::Event(ev) => debug!(.., "Received dispacher event")
\* Network events reach the dispatcher through the stream start() forwards.
\* ConnectFailed carries a reason, Received a Data frame for a dst path.
ReceiveEvent ==
    \E ev \in NetworkEvents, peer \in Peers,
       reason \in ConnectFailReasons \cup {NotTried},
       path \in Paths \cup {NoPath} :
        /\ net_bridge
        /\ (ev = "ConnectFailed") <=> (reason \in ConnectFailReasons)
        /\ (ev = "Received") <=> (path \in Paths)
        /\ lastOp' = [Op(ev, peer, connections[peer], reason, 0)
                         EXCEPT !.path = path]
        /\ UNCHANGED <<connections, net_bridge, queue_manager, lookup,
                       connect_calls, sent, routed, next_id>>

Next ==
    \/ Start
    \/ Stop
    \/ Kill
    \/ ReceiveMsg
    \/ ReceiveCast
    \/ ReceiveRegister
    \/ ReceiveDeregister
    \/ ReceiveEvent

Spec == Init /\ [][Next]_vars

SpecConn == InitConn /\ [][Next]_vars

\* ---- QueueManager on its own -------------------------------------------
InitQM ==
    /\ connections = [p \in Peers |-> NoEntry]
    /\ net_bridge = FALSE
    /\ queue_manager = QueueManagerNew
    /\ lookup = {}
    /\ connect_calls = [p \in Peers |-> 0]
    /\ sent = [p \in Peers |-> <<>>]
    /\ routed = [p \in Peers |-> <<>>]
    /\ next_id = 1
    /\ lastOp = Op("new", NoPeer, NoEntry, NotTried, 0)

\* q.enqueue_frame(frame, dst) with a fresh frame
EnqueueFrame ==
    /\ next_id <= MaxFrames
    /\ \E dst \in Peers :
          /\ queue_manager' = [queue_manager EXCEPT
                  !.inner = enqueue_frame(@, Frame(next_id), dst)]
          /\ lastOp' = Op("enqueue_frame", dst, NoEntry, NotTried, next_id)
    /\ next_id' = next_id + 1
    /\ UNCHANGED <<connections, net_bridge, lookup, connect_calls, sent, routed>>

\* q.dequeue_frame(&dst); lastOp records the Option<Frame> it returned
DequeueFrame ==
    \E dst \in Peers :
        LET r == dequeue_frame(queue_manager.inner, dst) IN
        /\ queue_manager' = [queue_manager EXCEPT !.inner = r.inner]
        /\ lastOp' = IF Len(r.ret) = 0
                     THEN Op("dequeue_frame", dst, NoEntry, "None", 0)
                     ELSE Op("dequeue_frame", dst, NoEntry, "Some", r.ret[1].id)
        /\ UNCHANGED <<connections, net_bridge, lookup, connect_calls, sent,
                       routed, next_id>>

NextQM ==
    \/ EnqueueFrame
    \/ DequeueFrame

SpecQM == InitQM /\ [][NextQM]_vars

\* ---- properties --------------------------------------------------------
queue(p) == queue_manager.inner[p]
Ids(seq) == {seq[i].id : i \in 1..Len(seq)}
InOrder(seq) == \A i, j \in 1..Len(seq) : i < j => seq[i].id < seq[j].id
Before(seq, a, b) ==
    \E i, j \in 1..Len(seq) : i < j /\ seq[i].id = a /\ seq[j].id = b

\* the step is a route_remote call for peer p
RouteRemoteStep(p) ==
    /\ lastOp'.op = "route_remote"
    /\ lastOp'.peer = p
    /\ next_id' = next_id + 1

C2_QueueFIFO ==
    [][\A dst \in Peers :
         (lastOp'.op = "dequeue_frame" /\ lastOp'.peer = dst) =>
            IF Len(queue(dst)) = 0
            THEN lastOp'.res = "None" /\ queue_manager' = queue_manager
            ELSE /\ lastOp'.res = "Some"
                 /\ lastOp'.id = Head(queue(dst)).id
                 /\ queue_manager'.inner[dst] = Tail(queue(dst))]_vars

\* C3 - no loss without event: every frame built by a route to a TCP peer is
\* in exactly one place: handed to the peer's send channel, waiting in the
\* peer's pending queue, or recorded as a deadletter/overflow event.
C3_NoLossWithoutEvent ==
    \A p \in Peers : \A i \in 1..Len(routed[p]) :
        LET id == routed[p][i]
            places == (IF id \in Ids(sent[p]) THEN 1 ELSE 0)
                      + (IF id \in Ids(queue(p)) THEN 1 ELSE 0)
                      + (IF id \in DeadLetters THEN 1 ELSE 0)
        IN places = 1

\* one route_remote call with the bridge present, by the state it finds
C4_Step ==
    \A p \in Peers :
        (RouteRemoteStep(p) /\ net_bridge) =>
            LET state == IF connections[p] = NoEntry THEN "New"
                         ELSE connections[p]
            IN
            /\ state \in {"New", "Closed"} =>
                  /\ connections'[p] = "Initializing"
                  /\ queue_manager'.some
                  /\ queue_manager'.inner[p] = Append(queue(p), Frame(next_id))
                  /\ connect_calls'[p] = connect_calls[p] + 1
            /\ state = "Initializing" =>
                  /\ connections'[p] = "Initializing"
                  /\ queue_manager'.some
                  /\ queue_manager'.inner[p] = Append(queue(p), Frame(next_id))
                  /\ connect_calls'[p] = connect_calls[p]

\* the frames wait in route order, behind one connect request
C4_OneConnect ==
    \A p \in Peers :
        /\ connections[p] = "Initializing" => connect_calls[p] = 1
        /\ InOrder(queue(p))

C5_OpenedDrains ==
    [][\A p \in Peers :
         (lastOp'.op = "Opened" /\ lastOp'.peer = p) =>
            /\ connections'[p] = "Connected"
            /\ \E n \in 0..Len(queue(p)) :
                  /\ sent'[p] = sent[p] \o SubSeq(queue(p), 1, n)
                  /\ queue_manager'.inner[p]
                        = SubSeq(queue(p), n + 1, Len(queue(p)))]_vars

C7_Step ==
    \A p \in Peers :
        (RouteRemoteStep(p) /\ lastOp'.res = "Full") =>
            /\ connections[p] = "Connected"
            /\ connections' = connections
            /\ queue_manager'.inner
                  = [queue_manager.inner EXCEPT
                        ![p] = Append(@, Frame(next_id))]
            /\ connect_calls' = connect_calls
            /\ sent' = sent

\* C7 - full channel: a route to a Connected peer whose try_send returns Full
\* appends the rejected frame to the peer's queue exactly once, leaves the
\* peer Connected, asks for no connect and sends nothing; the queue holds
\* its frames in route order, each once.
C7_FullChannel == [][C7_Step]_vars /\ [](\A p \in Peers : InOrder(queue(p)))

\* two consecutive Full outcomes left two frames queued
C7_Witness ==
    /\ lastOp.op = "route_remote"
    /\ lastOp.res = "Full"
    /\ lastOp.prev = "Connected"
    /\ connections[lastOp.peer] = "Connected"
    /\ Len(queue(lastOp.peer)) >= 2

max_pending_frames_per_peer == 2

\* C9 - bounded pending queue: no peer's pending queue ever holds more than
\* max_pending_frames_per_peer frames.
C9_BoundedQueue ==
    \A p \in Peers : Len(queue(p)) <= max_pending_frames_per_peer

Count(seq, x) == Cardinality({i \in 1..Len(seq) : seq[i] = x})

\* C11 - connect failure: ConnectFailed(peer, reason) for a peer in
\* Initializing with a permanent reason makes the peer Blocked, empties its
\* queue and deadletters the frames that were queued; with a transient
\* reason it makes the peer Closed and keeps the queue.
C11_ConnectFailed ==
    [][\A p \in Peers :
         (lastOp'.op = "ConnectFailed" /\ lastOp'.peer = p
              /\ connections[p] = "Initializing") =>
            /\ lastOp'.res = "Permanent" =>
                  /\ connections'[p] = "Blocked"
                  /\ queue_manager'.inner[p] = <<>>
                  /\ Ids(queue(p)) \subseteq DeadLetters
            /\ lastOp'.res = "Transient" =>
                  /\ connections'[p] = "Closed"
                  /\ queue_manager'.inner[p] = queue(p)]_vars

\* C12 - local hit: a route with transport Local to a registered path puts
\* the message's envelope once in the mailbox of the actor registered there
\* and does no network I/O: the connection table, the pending queues, the
\* connect requests and the send channels are unchanged.
C12_LocalHit ==
    [][\A path \in Paths :
         (lastOp'.op = "route_local" /\ lastOp'.path = path
              /\ path \in lookup) =>
            /\ Count(Mailbox[path], lastOp'.id) = 1
            /\ UNCHANGED <<connections, queue_manager, connect_calls, sent>>]_vars

\* C13 - local miss: a route with transport Local to a path with no
\* registration records the message as a deadletter and leaves the registry
\* unchanged.
C13_LocalMiss ==
    [][\A path \in Paths :
         (lastOp'.op = "route_local" /\ lastOp'.path = path
              /\ path \notin lookup) =>
            /\ lastOp'.id \in DeadLetters
            /\ lookup' = lookup]_vars

\* C14 - unsupported transport: a route with transport Udp records the
\* message as a deadletter and leaves the connection table, the pending
\* queues and the bridge (no connect request) unchanged.
C14_UdpUnsupported ==
    [][lastOp'.op = "route_udp" =>
            /\ lastOp'.id \in DeadLetters
            /\ UNCHANGED <<connections, queue_manager, net_bridge,
                           connect_calls, sent>>]_vars

\* C15 - inbound delivery: Received(peer, Data frame) puts the frame's
\* envelope once in the mailbox of the actor registered at the frame's dst
\* path, or records it as a deadletter when the path has no registration.
C15_InboundDelivery ==
    [][\A path \in Paths :
         (lastOp'.op = "Received" /\ lastOp'.path = path) =>
            IF path \in lookup
            THEN Count(Mailbox[path], lastOp'.id) = 1
            ELSE lastOp'.id \in DeadLetters]_vars

\* one step: only Start makes the bridge or the queue manager, and it makes
\* both
C16_Step ==
    /\ lastOp'.op = "Start" => (net_bridge' /\ queue_manager'.some)
    /\ lastOp'.op # "Start" =>
          /\ net_bridge' = net_bridge
          /\ queue_manager'.some = queue_manager.some

\* C16 - inert until Start: the constructed dispatcher has no bridge and no
\* queue manager; handling Start creates both; no other envelope or control
\* event (Message, Registration, Event, Cast, Stop, Kill) creates either, so
\* both are absent until the first Start.
C16_InertUntilStart ==
    (~net_bridge /\ ~queue_manager.some) /\ [][C16_Step]_vars

\* Start was handled after a route that found the dispatcher inert (the
\* route left the peer Closed): both exist now
C16_Witness ==
    /\ lastOp.op = "Start"
    /\ net_bridge
    /\ queue_manager.some
    /\ \E p \in Peers : connections[p] = "Closed"

\* C17 - Kill: right after Kill is handled no peer is Connected or
\* Initializing and every pending queue is empty.
C17_KillClosesAll ==
    lastOp.op = "Kill" =>
        \A p \in Peers :
            /\ connections[p] \notin {"Connected", "Initializing"}
            /\ queue(p) = <<>>

\* C18 - Deregister(path) removes the path from the registry and leaves the
\* connection table and every pending queue unchanged.
C18_Deregister ==
    [][\A path \in Paths :
         (lastOp'.op = "Deregister" /\ lastOp'.path = path) =>
            /\ path \notin lookup'
            /\ connections' = connections
            /\ queue_manager' = queue_manager]_vars

\* C19 - Cast envelopes are dropped: handling a Cast leaves the registry, the
\* connection table, the pending queues and the bridge (its existence, the
\* connect requests it got, the frames it was handed) unchanged.
C19_CastDropped ==
    [][lastOp'.op = "Cast" =>
          UNCHANGED <<lookup, connections, queue_manager, net_bridge,
                      connect_calls, sent>>]_vars

\* a Cast was handled by a dispatcher with a registration and a queued frame
C19_Witness ==
    /\ lastOp.op = "Cast"
    /\ lookup # {}
    /\ \E p \in Peers :
          connections[p] = "Initializing" /\ Len(queue(p)) > 0

\* C20 - bridge missing: a TCP route to a peer in New or Closed while there
\* is no bridge deadletters the message, asks for no connect and leaves the
\* peer Closed.
C20_BridgeMissing ==
    [][\A p \in Peers :
         (RouteRemoteStep(p) /\ ~net_bridge
              /\ connections[p] \in {NoEntry, "New", "Closed"}) =>
            /\ next_id \in DeadLetters
            /\ connect_calls' = connect_calls
            /\ connections'[p] = "Closed"]_vars

\* the send channel of a Connected peer accepts frames: it took the frame of
\* the last route to the peer, or no route has tried it yet
ChannelAccepting(p) ==
    /\ connections[p] = "Connected"
    /\ \/ routed[p] = <<>>
       \/ routed[p][Len(routed[p])] \in Ids(sent[p])

C22_PeerIsolation ==
    [][\A p \in Peers :
         RouteRemoteStep(p) =>
            \A b \in Peers \ {p} :
                /\ connections'[b] = connections[b]
                /\ queue_manager'.inner[b] = queue(b)
                /\ connect_calls'[b] = connect_calls[b]
                /\ sent'[b] = sent[b]]_vars

\* a route changed its peer's queue while the other peer, Connected, had a
\* frame waiting
C22_Witness ==
    /\ lastOp.op = "route_remote"
    /\ Len(queue(lastOp.peer)) > 0
    /\ lastOp.id \in Ids(queue(lastOp.peer))
    /\ \E b \in Peers \ {lastOp.peer} :
          connections[b] = "Connected" /\ Len(queue(b)) > 0

\* C23 - the bridge and the queue manager exist together: in every state
\* both are absent or both are present, and no step takes either away.
C23_ExistTogether ==
    [](net_bridge <=> queue_manager.some)
    /\ [][/\ net_bridge => net_bridge'
          /\ queue_manager.some => queue_manager'.some]_vars

\* a route found neither (it left its peer Closed); Start then made both and
\* a Kill left both in place
C23_Witness ==
    /\ lastOp.op = "Kill"
    /\ net_bridge
    /\ queue_manager.some
    /\ \E p \in Peers : connections[p] = "Closed"

====
